---- MODULE Spec2Model ----
(***************************************************************************)
(* Model of meilisearch-lib/src/index/dump.rs: Index::dump (with           *)
(* dump_documents and dump_meta) and Index::load_dump, together with the   *)
(* part of the storage engine (heed/LMDB transactions, milli settings      *)
(* builder and bulk document loader) that they drive.                      *)
(***************************************************************************)
EXTENDS Integers, Sequences, FiniteSets, TLC

\* ------------------------------------------------------------------ bounds
\* Write transactions the concurrent writer of the source index may begin.
MaxWrites == 2

\* ------------------------------------------------------------- data domain
\* Option<T>: None is <<>>, Some(x) is <<x>>.
None == <<>>
Some(x) == <<x>>

\* A JSON object as text: the sequence of its <<name, value>> members in the
\* order they are written. The documents a writer of the index may add.
Obj1(v) == << <<"id", v>> >>
Obj2(v, w) == << <<"id", v>>, <<"title", w>> >>
Obj3(v, w) == << <<"title", w>>, <<"id", v>> >>
Obj4(w) == << <<"title", w>> >>
WriterDocs == {Obj1(1), Obj2(2, 1), Obj3(1, 2), Obj4(2)}

\* The members of a JSON object as a mapping (member order is not significant).
AsMap(obj) == {obj[i] : i \in DOMAIN obj}

\* The bytes stored for one field of a document are the JSON text of its value;
\* serde_json::from_slice decodes them.
ToBytes(v) == <<"json", v>>
FromSlice(bytes) == bytes[2]

\* Stored bytes that are not JSON text, and whether from_slice returns Ok.
BadBytes == <<"bad", 0>>
Decodable(bytes) == bytes[1] = "json"

\* fields_ids_map.id(name): the field id of a name (0 when the map has none);
\* field ids are positions in the map.
FieldId(fmap, n) ==
    IF \E i \in DOMAIN fmap : fmap[i] = n
    THEN CHOOSE i \in DOMAIN fmap : fmap[i] = n
    ELSE 0

\* fields_ids_map.name(fid): Some(name) or None.
FieldName(fmap, fid) == IF fid \in DOMAIN fmap THEN Some(fmap[fid]) ELSE None

\* fields_ids_map.insert for every member name of obj, in member order.
RECURSIVE InsertFields(_, _)
InsertFields(fmap, obj) ==
    IF obj = <<>> THEN fmap
    ELSE InsertFields(IF FieldId(fmap, Head(obj)[1]) = 0
                      THEN Append(fmap, Head(obj)[1]) ELSE fmap,
                      Tail(obj))

\* The stored payload of a document: field id -> bytes.
Payload(fmap, obj) ==
    [fid \in {FieldId(fmap, obj[i][1]) : i \in DOMAIN obj} |->
        ToBytes((CHOOSE m \in AsMap(obj) : m[1] = fmap[fid])[2])]

\* An index with nothing in it: what milli::Index::new creates.
EmptyIndex == [docs |-> <<>>, fmap |-> <<>>, pk |-> None, displayed |-> None]

\* The value a stored document has for field name n, None when it has none.
DocValue(fmap, payload, n) ==
    IF FieldId(fmap, n) \in DOMAIN payload
    THEN Some(FromSlice(payload[FieldId(fmap, n)])) ELSE None

RECURSIVE RemoveByKey(_, _, _, _)
RemoveByKey(docs, fmap, pk, v) ==
    IF docs = <<>> THEN <<>>
    ELSE IF DocValue(fmap, Head(docs), pk) = Some(v)
         THEN RemoveByKey(Tail(docs), fmap, pk, v)
         ELSE <<Head(docs)>> \o RemoveByKey(Tail(docs), fmap, pk, v)

\* The bulk document loader (milli IndexDocuments::execute) on a batch of
\* JSON objects. Without a primary key it infers one from the first document
\* (a field named "id"), failing when there is none to infer; every document
\* must carry the primary key; a document replaces the stored one of its key.
InferPrimaryKey(batch) ==
    IF batch # <<>> /\ \E m \in AsMap(batch[1]) : m[1] = "id" THEN Some("id") ELSE None

RECURSIVE AddDocuments(_, _)
AddDocuments(st, batch) ==
    IF batch = <<>> THEN [ok |-> TRUE, st |-> st]
    ELSE LET obj == Head(batch)
             key == st.pk[1]
         IN  IF ~ \E m \in AsMap(obj) : m[1] = key
             THEN [ok |-> FALSE, st |-> st]
             ELSE LET fm == InsertFields(st.fmap, obj)
                      v == (CHOOSE m \in AsMap(obj) : m[1] = key)[2]
                  IN  AddDocuments(
                        [st EXCEPT !.fmap = fm,
                                   !.docs = Append(RemoveByKey(st.docs, fm, key, v),
                                                   Payload(fm, obj))],
                        Tail(batch))

IndexDocuments(st, batch) ==
    LET pk == IF st.pk # None THEN st.pk ELSE InferPrimaryKey(batch)
    IN  IF pk = None THEN [ok |-> FALSE, st |-> st]
        ELSE AddDocuments([st EXCEPT !.pk = pk,
                                     !.fmap = InsertFields(st.fmap, << <<pk[1], 0>> >>)],
                          batch)

\* ------------------------------------------------------- settings and meta
\* Index::settings_txn: the index's settings as Settings<Checked>.
SettingsTxn(st) ==
    [kind |-> "Checked",
     displayed |-> IF st.displayed = None THEN <<"Reset">>
                   ELSE <<"Set", st.displayed[1]>>]

\* Settings<Checked>::into_unchecked: the same values, tagged Unchecked.
IntoUnchecked(s) == [s EXCEPT !.kind = "Unchecked"]

JNull == <<"null">>
JStr(x) == <<"str", x>>
JArr(x) == <<"arr", x>>

\* Variant of SerializeMeta: an absent primary key is written as the empty string.
SerializeMetaEmptyKey(meta) ==
    <<"json",
      [settings |-> [displayedAttributes |->
                        IF meta.settings.displayed[1] = "Reset" THEN JNull
                        ELSE JArr(meta.settings.displayed[2])],
       primary_key |-> IF meta.primary_key = None THEN JStr("")
                       ELSE JStr(meta.primary_key[1])]>>

\* Variant of SerializeMeta: the member of the primary key is named in camel case.
SerializeMetaCamelCase(meta) ==
    <<"json",
      [settings |-> [displayedAttributes |->
                        IF meta.settings.displayed[1] = "Reset" THEN JNull
                        ELSE JArr(meta.settings.displayed[2])],
       primaryKey |-> IF meta.primary_key = None THEN JNull
                      ELSE JStr(meta.primary_key[1])]>>

\* serde_json::to_writer(&meta): the JSON object of a DumpMeta. The field
\* names are the struct's (no rename attribute); the kind tag is not written.
SerializeMeta(meta) ==
    <<"json",
      [settings |-> [displayedAttributes |->
                        IF meta.settings.displayed[1] = "Reset" THEN JNull
                        ELSE JArr(meta.settings.displayed[2])],
       primary_key |-> IF meta.primary_key = None THEN JNull
                       ELSE JStr(meta.primary_key[1])]>>

\* serde_json::from_reader::<DumpMeta>: Some(DumpMeta), None on malformed text
\* or a missing settings member; a missing primary_key member reads as None
\* and members of other names are ignored.
DeserializeMeta(text) ==
    IF text[1] # "json" THEN None
    ELSE IF "settings" \notin DOMAIN text[2] THEN None
    ELSE Some([settings |->
                  [kind |-> "Unchecked",
                   displayed |-> IF text[2].settings.displayedAttributes[1] = "null"
                                 THEN <<"Reset">>
                                 ELSE <<"Set", text[2].settings.displayedAttributes[2]>>],
               primary_key |-> IF "primary_key" \notin DOMAIN text[2] THEN None
                               ELSE IF text[2].primary_key[1] = "null" THEN None
                               ELSE Some(text[2].primary_key[2])])

\* Settings<Unchecked>::check: the validation step from Unchecked to Checked.
\* It returns the Checked settings directly; a wildcard among the displayed
\* attributes is normalised to Reset.
Check(s) ==
    [kind |-> "Checked",
     displayed |-> IF s.displayed[1] = "Set" /\ "*" \in s.displayed[2]
                   THEN <<"Reset">> ELSE s.displayed]

\* fields_ids_map.insert for every name of a set of attribute names.
RECURSIVE InsertNames(_, _)
InsertNames(fmap, names) ==
    IF names = {} THEN fmap
    ELSE LET n == CHOOSE x \in names : TRUE
         IN  InsertNames(IF FieldId(fmap, n) = 0 THEN Append(fmap, n) ELSE fmap,
                         names \ {n})

\* apply_settings_to_builder followed by builder.execute, with the primary key
\* given to set_primary_key when there is one. Displayed attributes that are
\* set are entered in the fields-ids map.
ExecuteSettings(st, settings, primary_key) ==
    [st EXCEPT !.pk = IF primary_key # None THEN primary_key ELSE st.pk,
               !.displayed = IF settings.displayed[1] = "Set"
                             THEN Some(settings.displayed[2]) ELSE None,
               !.fmap = IF settings.displayed[1] = "Set"
                        THEN InsertNames(st.fmap, settings.displayed[2]) ELSE st.fmap]

\* File contents. A file that does not exist is NoFile.
NoFile == <<"absent">>
EmptyFile == <<"empty">>
Garbage == <<"garbage">>
Lines(ls) == <<"lines", ls>>

\* ------------------------------------------------------------------- state
VARIABLES
    idx,        \* committed state of the source index
    wlock,      \* holder of the source environment's writer lock
    wtxn,       \* the concurrent writer's uncommitted view (EmptyIndex outside a transaction)
    wbegun,     \* write transactions the writer has begun
    wdone,      \* write transactions the writer has committed or aborted
    wops,       \* operations in the writer's current transaction
    dumpPc,     \* position of Index::dump
    dumpSaw,    \* the writer transaction in flight when dump was called (0: none)
    dumpPos,    \* dump_documents: next stored document
    dumpFmap,   \* dump_documents: fields_ids_map
    json_map,   \* dump_documents: json_map
    dumpRes,    \* result of dump
    dump2Pc,    \* position of a second call of Index::dump on the same index and path
    dump2Pos,   \* its dump_documents: next stored document
    dump2Fmap,  \* its dump_documents: fields_ids_map
    json_map2,  \* its dump_documents: json_map
    dump2Res,   \* its result
    dumpDir,    \* <root>/indexes/<uuid>/ exists
    docsFile,   \* documents.jsonl
    metaFile,   \* meta.json
    altered,    \* the snapshot was edited after the dump
    origin,     \* the committed state of the index when dump opened its transaction
    lpc,        \* position of Index::load_dump
    dstDir,     \* <dst>/indexes/<dir_name>/ exists
    env,        \* the destination environment: none, open, closing, closed
    dst,        \* committed state of the destination store
    ltxn,       \* load_dump's write transaction: None, or Some(uncommitted view)
    lmeta,      \* the deserialized DumpMeta
    lsettings,  \* `settings` after line 106: None before, then Some(settings)
    tmp,        \* the staging file tmp_doc_file
    lbatch,     \* the content of the staging file / documents_reader
    lres,       \* result of load_dump
    lerrAt,     \* the step whose failure load_dump returned ("none": no failure)
    applied,    \* what the settings builder executed with: None or Some(<<settings, pk>>)
    loaderRan,  \* the bulk loader was executed
    commits     \* commits of load_dump's transaction

srcVars == <<idx, wlock, wtxn, wbegun, wdone, wops>>
dumpVars == <<dumpPc, dumpSaw, dumpPos, dumpFmap, json_map, dumpRes>>
dump2Vars == <<dump2Pc, dump2Pos, dump2Fmap, json_map2, dump2Res>>
fileVars == <<dumpDir, docsFile, metaFile>>
srcFiles == <<dumpDir, docsFile, metaFile, altered, origin>>
loadVars == <<lpc, dstDir, env, dst, ltxn, lmeta, lsettings, tmp, lbatch, lres,
              lerrAt, applied, loaderRan, commits>>
vars == <<srcVars, dumpVars, dump2Vars, srcFiles, loadVars>>

\* States the source index starts from: never written, primary key configured
\* but no document yet, and two documents with different field sets.
InitIndexes ==
    {EmptyIndex,
     [EmptyIndex EXCEPT !.pk = Some("title")],
     IndexDocuments(ExecuteSettings(EmptyIndex,
                                    [kind |-> "Checked", displayed |-> <<"Set", {"title"}>>],
                                    None),
                    <<Obj3(1, 1), Obj1(2)>>).st}

\* Maximum operations in one write transaction of the concurrent writer.
MaxTxnOps == 2

\* ------------------------------------------- concurrent writer of the index
\* Another user of the source index: begins a write transaction (the
\* environment has one writer lock), changes documents and settings in it,
\* and commits or aborts.
WriterBegin ==
    /\ wlock = "free"
    /\ wbegun < MaxWrites
    /\ lpc = "idle"
    /\ wlock' = "writer"
    /\ wtxn' = idx
    /\ wbegun' = wbegun + 1
    /\ wops' = 0
    /\ UNCHANGED <<idx, wdone>>
    /\ UNCHANGED <<dumpVars, dump2Vars, srcFiles, loadVars>>

WriterAddDocument(obj) ==
    /\ wlock = "writer"
    /\ wops < MaxTxnOps
    /\ IndexDocuments(wtxn, <<obj>>).ok
    /\ wtxn' = IndexDocuments(wtxn, <<obj>>).st
    /\ wops' = wops + 1
    /\ UNCHANGED <<idx, wlock, wbegun, wdone>>
    /\ UNCHANGED <<dumpVars, dump2Vars, srcFiles, loadVars>>

WriterSetDisplayed(d) ==
    /\ wlock = "writer"
    /\ wops < MaxTxnOps
    /\ SettingsTxn(wtxn).displayed # d
    /\ wtxn' = ExecuteSettings(wtxn, Check([kind |-> "Unchecked", displayed |-> d]), None)
    /\ wops' = wops + 1
    /\ UNCHANGED <<idx, wlock, wbegun, wdone>>
    /\ UNCHANGED <<dumpVars, dump2Vars, srcFiles, loadVars>>

WriterCommit ==
    /\ wlock = "writer"
    /\ idx' = wtxn
    /\ wlock' = "free"
    /\ wdone' = wdone + 1
    /\ wtxn' = EmptyIndex
    /\ wops' = 0
    /\ UNCHANGED wbegun
    /\ UNCHANGED <<dumpVars, dump2Vars, srcFiles, loadVars>>

WriterAbort ==
    /\ wlock = "writer"
    /\ wlock' = "free"
    /\ wdone' = wdone + 1
    /\ wtxn' = EmptyIndex
    /\ wops' = 0
    /\ UNCHANGED <<idx, wbegun>>
    /\ UNCHANGED <<dumpVars, dump2Vars, srcFiles, loadVars>>

\* ------------------------------------------------------------- Index::dump
\* IndexMap::insert: a new key is appended, an existing key keeps its place
\* and takes the new value.
MapInsert(jm, name, v) ==
    IF \E i \in DOMAIN jm : jm[i][1] = name
    THEN [i \in DOMAIN jm |-> IF jm[i][1] = name THEN <<name, v>> ELSE jm[i]]
    ELSE Append(jm, <<name, v>>)

\* The inner loop of dump_documents: the (fid, bytes) entries of one stored
\* document in field-id order; a field id without a name is passed over.
RECURSIVE DecodeFields(_, _, _, _)
DecodeFields(fmap, payload, jm, fid) ==
    IF \A f \in DOMAIN payload : f < fid THEN jm
    ELSE IF fid \in DOMAIN payload /\ FieldName(fmap, fid) # None
         THEN IF ~Decodable(payload[fid]) THEN jm
              ELSE DecodeFields(fmap, payload,
                           MapInsert(jm, FieldName(fmap, fid)[1], FromSlice(payload[fid])),
                           fid + 1)
         ELSE DecodeFields(fmap, payload, jm, fid + 1)

\* The inner loop meets bytes that from_slice rejects: only the bytes of a
\* field id that has a name are decoded.
Undecodable(fmap, payload) ==
    \E fid \in DOMAIN payload :
        FieldName(fmap, fid) # None /\ ~Decodable(payload[fid])

\* serde_json::to_writer(&json_map) followed by "\n": one line of the stream.
JsonLine(jm) == <<"obj", jm>>

\* dump_documents as a whole: the lines written for the stored documents.
RECURSIVE DocLines(_, _)
DocLines(fmap, docs) ==
    IF docs = <<>> THEN <<>>
    ELSE <<JsonLine(DecodeFields(fmap, Head(docs), <<>>, 1))>> \o DocLines(fmap, Tail(docs))

\* dump_meta as a whole: the meta record written for an index state.
MetaOf(st) ==
    SerializeMeta([settings |-> IntoUnchecked(SettingsTxn(st)), primary_key |-> st.pk])

\* The caller invokes dump; line 30 has not returned yet.
DumpCall ==
    /\ dumpPc = "idle"
    /\ dumpPc' = "write_txn"
    /\ dumpSaw' = IF wlock = "writer" THEN wbegun ELSE 0
    /\ UNCHANGED <<dumpPos, dumpFmap, json_map, dumpRes>>
    /\ UNCHANGED <<srcVars, fileVars, altered, origin, loadVars, dump2Vars>>

\* Variant of DumpWriteTxn: the dump proceeds without taking the writer lock.
DumpWriteTxnUnlocked ==
    /\ dumpPc = "write_txn"
    /\ dumpPc' = "create_dir"
    /\ origin' = idx
    /\ UNCHANGED <<srcVars, dumpSaw, dumpPos, dumpFmap, json_map, dumpRes, fileVars>>
    /\ UNCHANGED <<altered, loadVars, dump2Vars>>

\* self.env.write_txn()?: returns once the writer lock is free, and holds it.
DumpWriteTxn ==
    /\ dumpPc = "write_txn"
    /\ wlock = "free"
    /\ wlock' = "dump"
    /\ dumpPc' = "create_dir"
    /\ UNCHANGED <<idx, wtxn, wbegun, wdone, wops>>
    /\ origin' = idx
    /\ UNCHANGED <<dumpSaw, dumpPos, dumpFmap, json_map, dumpRes, fileVars>>
    /\ UNCHANGED <<altered, loadVars, dump2Vars>>

\* create_dir_all(&path)?
DumpCreateDir ==
    /\ dumpPc = "create_dir"
    /\ dumpDir' = TRUE
    /\ dumpPc' = "create_docs"
    /\ UNCHANGED <<dumpSaw, dumpPos, dumpFmap, json_map, dumpRes>>
    /\ UNCHANGED <<srcVars, docsFile, metaFile, altered, origin, loadVars, dump2Vars>>

\* dump_documents up to the loop: File::create, all_documents, fields_ids_map.
\* The transaction is the environment's writer, so its view is the committed
\* state of the index.
DumpOpenDocuments ==
    /\ dumpPc = "create_docs"
    /\ docsFile' = Lines(<<>>)
    /\ dumpFmap' = idx.fmap
    /\ dumpPos' = 1
    /\ json_map' = <<>>
    /\ dumpPc' = "docs"
    /\ UNCHANGED <<dumpSaw, dumpRes, srcVars, dumpDir, metaFile, altered, origin, loadVars, dump2Vars>>

\* Variant of DumpDocument: json_map is not cleared after the line is written.
DumpDocumentNoClear ==
    /\ dumpPc = "docs"
    /\ dumpPos <= Len(idx.docs)
    /\ ~Undecodable(dumpFmap, idx.docs[dumpPos])
    /\ LET jm == DecodeFields(dumpFmap, idx.docs[dumpPos], json_map, 1)
       IN  /\ docsFile' = Lines(Append(docsFile[2], JsonLine(jm)))
           /\ json_map' = jm
    /\ dumpPos' = dumpPos + 1
    /\ UNCHANGED <<dumpPc, dumpSaw, dumpFmap, dumpRes, srcVars, dumpDir, metaFile>>
    /\ UNCHANGED <<altered, origin, loadVars, dump2Vars>>

\* Variant of DumpDocument: a payload that does not decode is written as it is.
DumpDocumentLenient ==
    /\ dumpPc = "docs"
    /\ dumpPos <= Len(idx.docs)
    /\ LET jm == DecodeFields(dumpFmap, idx.docs[dumpPos], json_map, 1)
       IN  /\ docsFile' = Lines(Append(docsFile[2], JsonLine(jm)))
           /\ json_map' = <<>>
    /\ dumpPos' = dumpPos + 1
    /\ UNCHANGED <<dumpPc, dumpSaw, dumpFmap, dumpRes, srcVars, dumpDir, metaFile>>
    /\ UNCHANGED <<altered, origin, loadVars, dump2Vars>>

\* One iteration of the loop of dump_documents.
DumpDocument ==
    /\ dumpPc = "docs"
    /\ dumpPos <= Len(idx.docs)
    /\ ~Undecodable(dumpFmap, idx.docs[dumpPos])
    /\ LET jm == DecodeFields(dumpFmap, idx.docs[dumpPos], json_map, 1)
       IN  /\ docsFile' = Lines(Append(docsFile[2], JsonLine(jm)))
           /\ json_map' = <<>>
    /\ dumpPos' = dumpPos + 1
    /\ UNCHANGED <<dumpPc, dumpSaw, dumpFmap, dumpRes, srcVars, dumpDir, metaFile>>
    /\ UNCHANGED <<altered, origin, loadVars, dump2Vars>>

\* Variant of DumpCreateMeta: the loop may end one document early.
DumpCreateMetaEarly ==
    /\ dumpPc = "docs"
    /\ dumpPos >= Len(idx.docs)
    /\ metaFile' = EmptyFile
    /\ dumpPc' = "write_meta"
    /\ UNCHANGED <<dumpSaw, dumpPos, dumpFmap, json_map, dumpRes>>
    /\ UNCHANGED <<srcVars, dumpDir, docsFile, altered, origin, loadVars, dump2Vars>>

\* dump_documents returns Ok; dump_meta creates meta.json.
DumpCreateMeta ==
    /\ dumpPc = "docs"
    /\ dumpPos > Len(idx.docs)
    /\ metaFile' = EmptyFile
    /\ dumpPc' = "write_meta"
    /\ UNCHANGED <<dumpSaw, dumpPos, dumpFmap, json_map, dumpRes>>
    /\ UNCHANGED <<srcVars, dumpDir, docsFile, altered, origin, loadVars, dump2Vars>>

\* Variant of DumpWriteMeta: the settings are stored back as they are after
\* into_unchecked, with the displayed attributes reset.
DumpWriteMetaStore ==
    /\ dumpPc = "write_meta"
    /\ metaFile' = MetaOf(idx)
    /\ idx' = [idx EXCEPT !.displayed = None]
    /\ dumpPc' = "return"
    /\ UNCHANGED <<dumpSaw, dumpPos, dumpFmap, json_map, dumpRes>>
    /\ UNCHANGED <<wlock, wtxn, wbegun, wdone, wops>>
    /\ UNCHANGED <<dumpDir, docsFile, altered, origin, loadVars, dump2Vars>>

\* dump_meta: settings and primary key read through the transaction, written
\* as one JSON object.
DumpWriteMeta ==
    /\ dumpPc = "write_meta"
    /\ metaFile' = MetaOf(idx)
    /\ dumpPc' = "return"
    /\ UNCHANGED <<dumpSaw, dumpPos, dumpFmap, json_map, dumpRes>>
    /\ UNCHANGED <<srcVars, dumpDir, docsFile, altered, origin, loadVars, dump2Vars>>

\* Ok(()): the transaction is dropped without a commit, the lock is released.
DumpReturn ==
    /\ dumpPc = "return"
    /\ dumpPc' = "done"
    /\ dumpRes' = "ok"
    /\ wlock' = "free"
    /\ UNCHANGED <<idx, wtxn, wbegun, wdone, wops>>
    /\ UNCHANGED <<dumpSaw, dumpPos, dumpFmap, json_map, fileVars, altered, origin, loadVars, dump2Vars>>

\* self.env.write_txn()? fails: the engine reports an error once it holds the
\* writer mutex, and gives it back.
DumpWriteTxnError ==
    /\ dumpPc = "write_txn"
    /\ wlock = "free"
    /\ dumpPc' = "done"
    /\ dumpRes' = "err"
    /\ UNCHANGED <<srcVars, dumpSaw, dumpPos, dumpFmap, json_map, fileVars, altered, origin, loadVars, dump2Vars>>

\* serde_json::from_slice(bytes)? fails inside an iteration: dump returns Err
\* with the fields decoded so far still in json_map and no line written.
DumpDecodeError ==
    /\ dumpPc = "docs"
    /\ dumpPos <= Len(idx.docs)
    /\ Undecodable(dumpFmap, idx.docs[dumpPos])
    /\ json_map' = DecodeFields(dumpFmap, idx.docs[dumpPos], json_map, 1)
    /\ dumpPc' = "done"
    /\ dumpRes' = "err"
    /\ wlock' = "free"
    /\ UNCHANGED <<idx, wtxn, wbegun, wdone, wops>>
    /\ UNCHANGED <<dumpSaw, dumpPos, dumpFmap, fileVars, altered, origin, loadVars, dump2Vars>>

\* Variant of DumpIoError: the transaction outlives the Err return.
DumpIoErrorHoldsLock ==
    /\ dumpPc \in {"create_dir", "create_docs", "docs", "write_meta"}
    /\ dumpPc' = "done"
    /\ dumpRes' = "err"
    /\ UNCHANGED <<idx, wlock, wtxn, wbegun, wdone, wops>>
    /\ UNCHANGED <<dumpSaw, dumpPos, dumpFmap, json_map, fileVars, altered, origin, loadVars, dump2Vars>>

\* Any `?` of dump after the transaction is open: an I/O failure returns Err,
\* dropping the transaction.
DumpIoError ==
    /\ dumpPc \in {"create_dir", "create_docs", "docs", "write_meta"}
    /\ dumpPc' = "done"
    /\ dumpRes' = "err"
    /\ wlock' = "free"
    /\ UNCHANGED <<idx, wtxn, wbegun, wdone, wops>>
    /\ UNCHANGED <<dumpSaw, dumpPos, dumpFmap, json_map, fileVars, altered, origin, loadVars, dump2Vars>>

\* ------------------------------------------- a second call of Index::dump
\* Another caller runs Index::dump on the same index and the same path: the
\* same code, with its own locals, on the same environment and files.
Dump2Call ==
    /\ dump2Pc = "idle"
    /\ dump2Pc' = "write_txn"
    /\ UNCHANGED <<dump2Pos, dump2Fmap, json_map2, dump2Res>>
    /\ UNCHANGED <<srcVars, dumpVars, srcFiles, loadVars>>

\* self.env.write_txn()?
Dump2WriteTxn ==
    /\ dump2Pc = "write_txn"
    /\ wlock = "free"
    /\ wlock' = "dump2"
    /\ dump2Pc' = "create_dir"
    /\ UNCHANGED <<idx, wtxn, wbegun, wdone, wops>>
    /\ UNCHANGED <<dump2Pos, dump2Fmap, json_map2, dump2Res>>
    /\ UNCHANGED <<dumpVars, srcFiles, loadVars>>

\* create_dir_all(&path)?
Dump2CreateDir ==
    /\ dump2Pc = "create_dir"
    /\ dumpDir' = TRUE
    /\ dump2Pc' = "create_docs"
    /\ UNCHANGED <<dump2Pos, dump2Fmap, json_map2, dump2Res>>
    /\ UNCHANGED <<srcVars, dumpVars, docsFile, metaFile, altered, origin, loadVars>>

\* File::create truncates documents.jsonl; all_documents, fields_ids_map.
Dump2OpenDocuments ==
    /\ dump2Pc = "create_docs"
    /\ docsFile' = Lines(<<>>)
    /\ dump2Fmap' = idx.fmap
    /\ dump2Pos' = 1
    /\ json_map2' = <<>>
    /\ dump2Pc' = "docs"
    /\ UNCHANGED <<dump2Res, srcVars, dumpVars, dumpDir, metaFile, altered, origin, loadVars>>

\* One iteration of the loop of dump_documents.
Dump2Document ==
    /\ dump2Pc = "docs"
    /\ dump2Pos <= Len(idx.docs)
    /\ ~Undecodable(dump2Fmap, idx.docs[dump2Pos])
    /\ LET jm == DecodeFields(dump2Fmap, idx.docs[dump2Pos], json_map2, 1)
       IN  /\ docsFile' = Lines(Append(docsFile[2], JsonLine(jm)))
           /\ json_map2' = <<>>
    /\ dump2Pos' = dump2Pos + 1
    /\ UNCHANGED <<dump2Pc, dump2Fmap, dump2Res, srcVars, dumpVars, dumpDir, metaFile>>
    /\ UNCHANGED <<altered, origin, loadVars>>

\* dump_documents returns Ok; dump_meta creates meta.json.
Dump2CreateMeta ==
    /\ dump2Pc = "docs"
    /\ dump2Pos > Len(idx.docs)
    /\ metaFile' = EmptyFile
    /\ dump2Pc' = "write_meta"
    /\ UNCHANGED <<dump2Pos, dump2Fmap, json_map2, dump2Res>>
    /\ UNCHANGED <<srcVars, dumpVars, dumpDir, docsFile, altered, origin, loadVars>>

\* dump_meta writes the meta record.
Dump2WriteMeta ==
    /\ dump2Pc = "write_meta"
    /\ metaFile' = MetaOf(idx)
    /\ dump2Pc' = "return"
    /\ UNCHANGED <<dump2Pos, dump2Fmap, json_map2, dump2Res>>
    /\ UNCHANGED <<srcVars, dumpVars, dumpDir, docsFile, altered, origin, loadVars>>

\* Ok(()): the transaction is dropped, the lock is released.
Dump2Return ==
    /\ dump2Pc = "return"
    /\ dump2Pc' = "done"
    /\ dump2Res' = "ok"
    /\ wlock' = "free"
    /\ UNCHANGED <<idx, wtxn, wbegun, wdone, wops>>
    /\ UNCHANGED <<dump2Pos, dump2Fmap, json_map2, dumpVars, srcFiles, loadVars>>

\* self.env.write_txn()? fails.
Dump2WriteTxnError ==
    /\ dump2Pc = "write_txn"
    /\ wlock = "free"
    /\ dump2Pc' = "done"
    /\ dump2Res' = "err"
    /\ UNCHANGED <<srcVars, dump2Pos, dump2Fmap, json_map2, dumpVars, srcFiles, loadVars>>

\* Any `?` after the transaction is open fails: Err, the transaction dropped.
Dump2IoError ==
    /\ dump2Pc \in {"create_dir", "create_docs", "docs", "write_meta"}
    /\ dump2Pc' = "done"
    /\ dump2Res' = "err"
    /\ wlock' = "free"
    /\ UNCHANGED <<idx, wtxn, wbegun, wdone, wops>>
    /\ UNCHANGED <<dump2Pos, dump2Fmap, json_map2, dumpVars, srcFiles, loadVars>>

\* ------------------------------------------------ the snapshot handed over
\* load_dump reads whatever directory its caller names: the snapshot a dump
\* left (complete or cut short by a failure), possibly edited since.
AlterFile(kind) ==
    CASE kind = "meta_missing" -> /\ metaFile' = NoFile
                                  /\ docsFile' = docsFile
      [] kind = "meta_garbage" -> /\ metaFile' = Garbage
                                  /\ docsFile' = docsFile
      [] kind = "meta_star" ->
            /\ metaFile[1] = "json"
            /\ metaFile' = <<"json", [metaFile[2] EXCEPT
                                !.settings = [displayedAttributes |-> JArr({"*", "title"})]]>>
            /\ docsFile' = docsFile
      [] kind = "meta_no_pk" ->
            /\ metaFile[1] = "json"
            /\ "primary_key" \in DOMAIN metaFile[2]
            /\ metaFile[2].primary_key[1] # "null"
            /\ metaFile' = <<"json", [metaFile[2] EXCEPT !.primary_key = JNull]>>
            /\ docsFile' = docsFile
      [] kind = "docs_missing" -> /\ docsFile' = NoFile
                                  /\ metaFile' = metaFile
      [] kind = "docs_bad_line" ->
            /\ docsFile[1] = "lines"
            /\ docsFile' = Lines(Append(docsFile[2], <<"garbage", <<>>>>))
            /\ metaFile' = metaFile

AlterKinds == {"meta_missing", "meta_garbage", "meta_star", "meta_no_pk",
               "docs_missing", "docs_bad_line"}

SnapshotAlter(kind) ==
    /\ dumpPc = "done"
    /\ lpc = "idle"
    /\ ~altered
    /\ AlterFile(kind)
    /\ altered' = TRUE
    /\ UNCHANGED <<srcVars, dumpVars, dump2Vars, dumpDir, origin, loadVars>>

\* -------------------------------------------------------- Index::load_dump
\* read_ndjson: every line parsed as a JSON object, in order, into the batch;
\* Some(batch), or None at a malformed line.
RECURSIVE ReadNdjson(_)
ReadNdjson(lines) ==
    IF lines = <<>> THEN Some(<<>>)
    ELSE IF Head(lines)[1] # "obj" THEN None
    ELSE LET rest == ReadNdjson(Tail(lines))
         IN  IF rest = None THEN None ELSE Some(<<Head(lines)[2]>> \o rest[1])

\* Variant of LoadErr: the staging file outlives the return.
LoadErrLeak ==
    /\ lpc' = "done"
    /\ lres' = "err"
    /\ lerrAt' = lpc
    /\ ltxn' = None
    /\ tmp' = tmp
    /\ env' = IF env = "open" THEN "closed" ELSE env

\* What a return with Err leaves: the locals are dropped, so the transaction
\* aborts, the staging file is released and the environment handle closes.
LoadErr ==
    /\ lpc' = "done"
    /\ lres' = "err"
    /\ lerrAt' = lpc
    /\ ltxn' = None
    /\ tmp' = IF tmp = "none" THEN "none" ELSE "released"
    /\ env' = IF env = "open" THEN "closed" ELSE env

\* The caller invokes load_dump on the dumped directory (line 92: dir_name),
\* once the dump has returned; the source index is left alone meanwhile.
LoadCall ==
    /\ lpc = "idle"
    /\ dumpPc = "done"
    /\ wlock = "free"
    /\ lpc' = "create_dir"
    /\ UNCHANGED <<dstDir, env, dst, ltxn, lmeta, lsettings, tmp, lbatch, lres,
                   lerrAt, applied, loaderRan, commits>>
    /\ UNCHANGED <<srcVars, dumpVars, dump2Vars, srcFiles>>

\* Lines 92-95: src has no final component; load_dump returns the
\* "invalid dump index" error before touching the destination.
LoadInvalidSource ==
    /\ lpc = "idle"
    /\ dumpPc = "done"
    /\ wlock = "free"
    /\ lpc' = "done"
    /\ lres' = "err"
    /\ lerrAt' = "dir_name"
    /\ UNCHANGED <<dstDir, env, dst, ltxn, lmeta, lsettings, tmp, lbatch,
                   applied, loaderRan, commits>>
    /\ UNCHANGED <<srcVars, dumpVars, dump2Vars, srcFiles>>

\* Variant of LoadCreateDir: the environment is opened right after the
\* directory is created, before the meta record is read.
LoadCreateDirOpenEnv ==
    /\ lpc = "create_dir"
    /\ dstDir' = TRUE
    /\ env' = "open"
    /\ lpc' = "read_meta"
    /\ UNCHANGED <<dst, ltxn, lmeta, lsettings, tmp, lbatch, lres,
                   lerrAt, applied, loaderRan, commits>>
    /\ UNCHANGED <<srcVars, dumpVars, dump2Vars, srcFiles>>

\* create_dir_all(&dst_dir_path)?
LoadCreateDir ==
    /\ lpc = "create_dir"
    /\ dstDir' = TRUE
    /\ lpc' = "read_meta"
    /\ UNCHANGED <<env, dst, ltxn, lmeta, lsettings, tmp, lbatch, lres,
                   lerrAt, applied, loaderRan, commits>>
    /\ UNCHANGED <<srcVars, dumpVars, dump2Vars, srcFiles>>

\* Variant of LoadReadMeta: a failure removes the directory just created.
LoadReadMetaCleanup ==
    /\ lpc = "read_meta"
    /\ IF metaFile[1] = "absent" \/ DeserializeMeta(metaFile) = None
       THEN /\ LoadErr
            /\ dstDir' = FALSE
            /\ UNCHANGED lmeta
       ELSE /\ lmeta' = DeserializeMeta(metaFile)
            /\ lpc' = "check"
            /\ UNCHANGED <<dstDir, env, ltxn, tmp, lres, lerrAt>>
    /\ UNCHANGED <<dst, lsettings, lbatch, applied, loaderRan, commits>>
    /\ UNCHANGED <<srcVars, dumpVars, dump2Vars, srcFiles>>

\* File::open(meta_path)? and serde_json::from_reader(meta_file)?
LoadReadMeta ==
    /\ lpc = "read_meta"
    /\ IF metaFile[1] = "absent" \/ DeserializeMeta(metaFile) = None
       THEN /\ LoadErr
            /\ UNCHANGED lmeta
       ELSE /\ lmeta' = DeserializeMeta(metaFile)
            /\ lpc' = "check"
            /\ UNCHANGED <<env, ltxn, tmp, lres, lerrAt>>
    /\ UNCHANGED <<dstDir, dst, lsettings, lbatch, applied, loaderRan, commits>>
    /\ UNCHANGED <<srcVars, dumpVars, dump2Vars, srcFiles>>

\* Variant of LoadCheckSettings: the deserialized settings pass on as they are.
LoadCheckSettingsSkip ==
    /\ lpc = "check"
    /\ lsettings' = Some(lmeta[1].settings)
    /\ lpc' = "open_env"
    /\ UNCHANGED <<dstDir, env, dst, ltxn, lmeta, tmp, lbatch, lres,
                   lerrAt, applied, loaderRan, commits>>
    /\ UNCHANGED <<srcVars, dumpVars, dump2Vars, srcFiles>>

\* let settings = settings.check();
LoadCheckSettings ==
    /\ lpc = "check"
    /\ lsettings' = Some(Check(lmeta[1].settings))
    /\ lpc' = "open_env"
    /\ UNCHANGED <<dstDir, env, dst, ltxn, lmeta, tmp, lbatch, lres,
                   lerrAt, applied, loaderRan, commits>>
    /\ UNCHANGED <<srcVars, dumpVars, dump2Vars, srcFiles>>

\* milli::Index::new(options, &dst_dir_path)?
LoadOpenEnv ==
    /\ lpc = "open_env"
    /\ env' = "open"
    /\ dst' = EmptyIndex
    /\ lpc' = "write_txn"
    /\ UNCHANGED <<dstDir, ltxn, lmeta, lsettings, tmp, lbatch, lres,
                   lerrAt, applied, loaderRan, commits>>
    /\ UNCHANGED <<srcVars, dumpVars, dump2Vars, srcFiles>>

\* let mut txn = index.write_txn()?;
LoadWriteTxn ==
    /\ lpc = "write_txn"
    /\ ltxn' = Some(dst)
    /\ lpc' = "settings"
    /\ UNCHANGED <<dstDir, env, dst, lmeta, lsettings, tmp, lbatch, lres,
                   lerrAt, applied, loaderRan, commits>>
    /\ UNCHANGED <<srcVars, dumpVars, dump2Vars, srcFiles>>

\* Variant of LoadApplySettings: set_primary_key is left out.
LoadApplySettingsNoKey ==
    /\ lpc = "settings"
    /\ ltxn' = Some(ExecuteSettings(ltxn[1], lsettings[1], None))
    /\ applied' = Some(<<lsettings[1], None>>)
    /\ lpc' = "open_docs"
    /\ UNCHANGED <<dstDir, env, dst, lmeta, lsettings, tmp, lbatch, lres,
                   lerrAt, loaderRan, commits>>
    /\ UNCHANGED <<srcVars, dumpVars, dump2Vars, srcFiles>>

\* Variant of LoadApplySettings: the settings builder commits on its own.
LoadApplySettingsAutocommit ==
    /\ lpc = "settings"
    /\ dst' = ExecuteSettings(ltxn[1], lsettings[1], lmeta[1].primary_key)
    /\ ltxn' = Some(ExecuteSettings(ltxn[1], lsettings[1], lmeta[1].primary_key))
    /\ applied' = Some(<<lsettings[1], lmeta[1].primary_key>>)
    /\ lpc' = "open_docs"
    /\ UNCHANGED <<dstDir, env, lmeta, lsettings, tmp, lbatch, lres,
                   lerrAt, loaderRan, commits>>
    /\ UNCHANGED <<srcVars, dumpVars, dump2Vars, srcFiles>>

\* Lines 115-124: the settings builder, under txn.
LoadApplySettings ==
    /\ lpc = "settings"
    /\ ltxn' = Some(ExecuteSettings(ltxn[1], lsettings[1], lmeta[1].primary_key))
    /\ applied' = Some(<<lsettings[1], lmeta[1].primary_key>>)
    /\ lpc' = "open_docs"
    /\ UNCHANGED <<dstDir, env, dst, lmeta, lsettings, tmp, lbatch, lres,
                   lerrAt, loaderRan, commits>>
    /\ UNCHANGED <<srcVars, dumpVars, dump2Vars, srcFiles>>

\* File::open(&document_file_path)? and tempfile::tempfile()?
LoadOpenDocuments ==
    /\ lpc = "open_docs"
    /\ IF docsFile[1] = "absent"
       THEN LoadErr
       ELSE /\ tmp' = "created"
            /\ lpc' = "read_ndjson"
            /\ UNCHANGED <<env, ltxn, lres, lerrAt>>
    /\ UNCHANGED <<dstDir, dst, lmeta, lsettings, lbatch, applied, loaderRan, commits>>
    /\ UNCHANGED <<srcVars, dumpVars, dump2Vars, srcFiles>>

\* read_ndjson(reader, &mut tmp_doc_file)?
LoadReadNdjson ==
    /\ lpc = "read_ndjson"
    /\ IF ReadNdjson(docsFile[2]) = None
       THEN /\ LoadErr
            /\ UNCHANGED lbatch
       ELSE /\ lbatch' = ReadNdjson(docsFile[2])[1]
            /\ tmp' = "populated"
            /\ lpc' = "seek"
            /\ UNCHANGED <<env, ltxn, lres, lerrAt>>
    /\ UNCHANGED <<dstDir, dst, lmeta, lsettings, applied, loaderRan, commits>>
    /\ UNCHANGED <<srcVars, dumpVars, dump2Vars, srcFiles>>

\* tmp_doc_file.seek(SeekFrom::Start(0))?
LoadSeek ==
    /\ lpc = "seek"
    /\ tmp' = "rewound"
    /\ lpc' = "batch_reader"
    /\ UNCHANGED <<dstDir, env, dst, ltxn, lmeta, lsettings, lbatch, lres,
                   lerrAt, applied, loaderRan, commits>>
    /\ UNCHANGED <<srcVars, dumpVars, dump2Vars, srcFiles>>

\* DocumentBatchReader::from_reader(tmp_doc_file)?
LoadBatchReader ==
    /\ lpc = "batch_reader"
    /\ tmp' = "consumed"
    /\ lpc' = "documents"
    /\ UNCHANGED <<dstDir, env, dst, ltxn, lmeta, lsettings, lbatch, lres,
                   lerrAt, applied, loaderRan, commits>>
    /\ UNCHANGED <<srcVars, dumpVars, dump2Vars, srcFiles>>

\* Variant of LoadDocuments: the bulk loader runs whatever the batch holds.
LoadDocumentsAlways ==
    /\ lpc = "documents"
    /\ loaderRan' = TRUE
    /\ IF IndexDocuments(ltxn[1], lbatch).ok
       THEN /\ ltxn' = Some(IndexDocuments(ltxn[1], lbatch).st)
            /\ tmp' = "released"
            /\ lpc' = "commit"
            /\ UNCHANGED <<env, lres, lerrAt>>
       ELSE LoadErr
    /\ UNCHANGED <<dstDir, dst, lmeta, lsettings, lbatch, applied, commits>>
    /\ UNCHANGED <<srcVars, dumpVars, dump2Vars, srcFiles>>

\* Lines 139-144: the bulk loader, only for a batch that is not empty. The
\* loader takes documents_reader, and the staging file in it, by value.
LoadDocuments ==
    /\ lpc = "documents"
    /\ IF lbatch # <<>>
       THEN /\ loaderRan' = TRUE
            /\ IF IndexDocuments(ltxn[1], lbatch).ok
               THEN /\ ltxn' = Some(IndexDocuments(ltxn[1], lbatch).st)
                    /\ tmp' = "released"
                    /\ lpc' = "commit"
                    /\ UNCHANGED <<env, lres, lerrAt>>
               ELSE LoadErr
       ELSE /\ lpc' = "commit"
            /\ UNCHANGED <<env, ltxn, tmp, lres, lerrAt, loaderRan>>
    /\ UNCHANGED <<dstDir, dst, lmeta, lsettings, lbatch, applied, commits>>
    /\ UNCHANGED <<srcVars, dumpVars, dump2Vars, srcFiles>>

\* txn.commit()?
LoadCommit ==
    /\ lpc = "commit"
    /\ dst' = ltxn[1]
    /\ ltxn' = None
    /\ commits' = commits + 1
    /\ lpc' = "close"
    /\ UNCHANGED <<dstDir, env, lmeta, lsettings, tmp, lbatch, lres, lerrAt, applied, loaderRan>>
    /\ UNCHANGED <<srcVars, dumpVars, dump2Vars, srcFiles>>

\* index.prepare_for_closing(): the request to close the environment.
LoadPrepareForClosing ==
    /\ lpc = "close"
    /\ env' = "closing"
    /\ lpc' = "wait"
    /\ UNCHANGED <<dstDir, dst, ltxn, lmeta, lsettings, tmp, lbatch, lres,
                   lerrAt, applied, loaderRan, commits>>
    /\ UNCHANGED <<srcVars, dumpVars, dump2Vars, srcFiles>>

\* The storage engine finishes closing the environment.
EnvClosed ==
    /\ env = "closing"
    /\ env' = "closed"
    /\ UNCHANGED <<lpc, dstDir, dst, ltxn, lmeta, lsettings, tmp, lbatch, lres,
                   lerrAt, applied, loaderRan, commits>>
    /\ UNCHANGED <<srcVars, dumpVars, dump2Vars, srcFiles>>

\* Variant of LoadWaitClosed: Ok(()) without waiting for the closing event.
LoadWaitClosedNoWait ==
    /\ lpc = "wait"
    /\ lpc' = "done"
    /\ lres' = "ok"
    /\ tmp' = "released"
    /\ UNCHANGED <<dstDir, env, dst, ltxn, lmeta, lsettings, lbatch,
                   lerrAt, applied, loaderRan, commits>>
    /\ UNCHANGED <<srcVars, dumpVars, dump2Vars, srcFiles>>

\* .wait() returns once the environment is closed; then Ok(()), where a
\* documents_reader that was not handed to the loader is dropped.
LoadWaitClosed ==
    /\ lpc = "wait"
    /\ env = "closed"
    /\ lpc' = "done"
    /\ lres' = "ok"
    /\ tmp' = "released"
    /\ UNCHANGED <<dstDir, env, dst, ltxn, lmeta, lsettings, lbatch,
                   lerrAt, applied, loaderRan, commits>>
    /\ UNCHANGED <<srcVars, dumpVars, dump2Vars, srcFiles>>

\* Any other `?` of load_dump: an I/O or engine failure (a full map included)
\* at a fallible step returns Err. With an empty batch nothing between
\* lines 135 and 146 can fail.
LoadIoError ==
    /\ lpc \in {"create_dir", "open_env", "write_txn", "settings", "open_docs",
                "read_ndjson", "seek", "batch_reader", "documents", "commit"}
    /\ lpc = "documents" => lbatch # <<>>
    /\ LoadErr
    /\ UNCHANGED <<dstDir, dst, lmeta, lsettings, lbatch, applied, loaderRan, commits>>
    /\ UNCHANGED <<srcVars, dumpVars, dump2Vars, srcFiles>>

\* ------------------------------------------------------------ specification
Init ==
    /\ idx \in InitIndexes
    /\ wlock = "free"
    /\ wtxn = EmptyIndex
    /\ wbegun = 0
    /\ wdone = 0
    /\ wops = 0
    /\ dumpPc = "idle"
    /\ dumpSaw = 0
    /\ dumpPos = 1
    /\ dumpFmap = <<>>
    /\ json_map = <<>>
    /\ dumpRes = "none"
    /\ dump2Pc = "idle"
    /\ dump2Pos = 1
    /\ dump2Fmap = <<>>
    /\ json_map2 = <<>>
    /\ dump2Res = "none"
    /\ dumpDir = FALSE
    /\ docsFile = NoFile
    /\ metaFile = NoFile
    /\ altered = FALSE
    /\ origin = EmptyIndex
    /\ lpc = "idle"
    /\ dstDir = FALSE
    /\ env = "none"
    /\ dst = EmptyIndex
    /\ ltxn = None
    /\ lmeta = None
    /\ lsettings = None
    /\ tmp = "none"
    /\ lbatch = <<>>
    /\ lres = "none"
    /\ lerrAt = "none"
    /\ applied = None
    /\ loaderRan = FALSE
    /\ commits = 0

Next ==
    \/ WriterBegin
    \/ \E obj \in WriterDocs : WriterAddDocument(obj)
    \/ \E d \in {<<"Reset">>, <<"Set", {"title"}>>} : WriterSetDisplayed(d)
    \/ WriterCommit
    \/ WriterAbort
    \/ DumpCall
    \/ DumpWriteTxn
    \/ DumpCreateDir
    \/ DumpOpenDocuments
    \/ DumpDocument
    \/ DumpCreateMeta
    \/ DumpWriteMeta
    \/ DumpReturn
    \/ DumpWriteTxnError
    \/ DumpIoError
    \/ \E kind \in AlterKinds : SnapshotAlter(kind)
    \/ LoadCall
    \/ LoadInvalidSource
    \/ LoadCreateDir
    \/ LoadReadMeta
    \/ LoadCheckSettings
    \/ LoadOpenEnv
    \/ LoadWriteTxn
    \/ LoadApplySettings
    \/ LoadOpenDocuments
    \/ LoadReadNdjson
    \/ LoadSeek
    \/ LoadBatchReader
    \/ LoadDocuments
    \/ LoadCommit
    \/ LoadPrepareForClosing
    \/ EnvClosed
    \/ LoadWaitClosed
    \/ LoadIoError

Spec == Init /\ [][Next]_vars

\* ------------------------------------------------- a store with bad content
\* States of the source index in which a stored document does not decode or
\* names a field id the fields-ids map does not hold: dump_documents reads the
\* store as it is (lines 53-59).
CorruptBase ==
    IndexDocuments(ExecuteSettings(EmptyIndex,
                                   [kind |-> "Checked", displayed |-> <<"Set", {"title"}>>],
                                   None),
                   <<Obj3(1, 1), Obj1(2)>>).st

CorruptIndexes ==
    {[CorruptBase EXCEPT !.docs[1][2] = BadBytes],
     [CorruptBase EXCEPT !.docs[2][2] = BadBytes],
     [CorruptBase EXCEPT !.docs[2] = (3 :> ToBytes(7)) @@ @],
     [CorruptBase EXCEPT !.docs[1] = (3 :> BadBytes) @@ @]}

InitCorrupt ==
    /\ idx \in CorruptIndexes
    /\ wlock = "free"
    /\ wtxn = EmptyIndex
    /\ wbegun = 0
    /\ wdone = 0
    /\ wops = 0
    /\ dumpPc = "idle"
    /\ dumpSaw = 0
    /\ dumpPos = 1
    /\ dumpFmap = <<>>
    /\ json_map = <<>>
    /\ dumpRes = "none"
    /\ dump2Pc = "idle"
    /\ dump2Pos = 1
    /\ dump2Fmap = <<>>
    /\ json_map2 = <<>>
    /\ dump2Res = "none"
    /\ dumpDir = FALSE
    /\ docsFile = NoFile
    /\ metaFile = NoFile
    /\ altered = FALSE
    /\ origin = EmptyIndex
    /\ lpc = "idle"
    /\ dstDir = FALSE
    /\ env = "none"
    /\ dst = EmptyIndex
    /\ ltxn = None
    /\ lmeta = None
    /\ lsettings = None
    /\ tmp = "none"
    /\ lbatch = <<>>
    /\ lres = "none"
    /\ lerrAt = "none"
    /\ applied = None
    /\ loaderRan = FALSE
    /\ commits = 0

\* The dump of such a store, with the concurrent writer.
NextCorrupt ==
    \/ WriterBegin
    \/ \E obj \in WriterDocs : WriterAddDocument(obj)
    \/ \E d \in {<<"Reset">>, <<"Set", {"title"}>>} : WriterSetDisplayed(d)
    \/ WriterCommit
    \/ WriterAbort
    \/ DumpCall
    \/ DumpWriteTxn
    \/ DumpCreateDir
    \/ DumpOpenDocuments
    \/ DumpDocument
    \/ DumpDecodeError
    \/ DumpCreateMeta
    \/ DumpWriteMeta
    \/ DumpReturn
    \/ DumpWriteTxnError
    \/ DumpIoError

SpecCorrupt == InitCorrupt /\ [][NextCorrupt]_vars

\* ------------------------------------------------- two dumps of one index
\* Two callers of Index::dump on the same index and path, with a writer that
\* adds documents.
NextDumps ==
    \/ WriterBegin
    \/ \E obj \in WriterDocs : WriterAddDocument(obj)
    \/ WriterCommit
    \/ WriterAbort
    \/ DumpCall
    \/ DumpWriteTxn
    \/ DumpCreateDir
    \/ DumpOpenDocuments
    \/ DumpDocument
    \/ DumpCreateMeta
    \/ DumpWriteMeta
    \/ DumpReturn
    \/ DumpWriteTxnError
    \/ DumpIoError
    \/ Dump2Call
    \/ Dump2WriteTxn
    \/ Dump2CreateDir
    \/ Dump2OpenDocuments
    \/ Dump2Document
    \/ Dump2CreateMeta
    \/ Dump2WriteMeta
    \/ Dump2Return
    \/ Dump2WriteTxnError
    \/ Dump2IoError

SpecDumps == Init /\ [][NextDumps]_vars

\* ------------------------------------------------------------ properties
\* The JSON object a stored document stands for: its fields by name.
DocObject(fmap, payload) ==
    {<<fmap[fid], FromSlice(payload[fid])>> : fid \in DOMAIN payload}

\* The snapshot files describe the committed index state st: one line per
\* stored document, in order, and the meta record of its settings and key.
SnapshotDescribes(st) ==
    /\ docsFile[1] = "lines"
    /\ Len(docsFile[2]) = Len(st.docs)
    /\ \A i \in DOMAIN st.docs :
          /\ docsFile[2][i][1] = "obj"
          /\ AsMap(docsFile[2][i][2]) = DocObject(st.fmap, st.docs[i])
    /\ metaFile[1] = "json"
    /\ DeserializeMeta(metaFile) =
          Some([settings |-> IntoUnchecked(SettingsTxn(st)), primary_key |-> st.pk])

\* C1: load_dump is all-or-nothing on the destination: its committed state
\* changes only in the final commit, at most once, after the settings builder
\* and (for a batch that is not empty) the bulk loader have run; and whenever
\* load_dump returns an error nothing was committed and the destination shows
\* no document and no settings, its directory still existing once created.
C1_AllOrNothing ==
    /\ [](lres = "err" =>
            /\ commits = 0
            /\ dst = EmptyIndex
            /\ ltxn = None
            /\ (env # "none" => dstDir))
    /\ [][(dst' # dst \/ commits' # commits) =>
            /\ lpc = "commit"
            /\ commits = 0
            /\ commits' = 1
            /\ applied # None
            /\ (lbatch # <<>> => loaderRan)
            /\ dst' = ltxn[1]]_vars

\* C1 witness: normalization failed on a malformed line after the settings
\* had been applied in the transaction; the destination is empty.
C1_Witness ==
    /\ lres = "err"
    /\ lerrAt = "read_ndjson"
    /\ docsFile[1] = "lines"
    /\ ReadNdjson(docsFile[2]) = None
    /\ applied # None
    /\ applied[1][2] # None
    /\ dstDir
    /\ env = "closed"
    /\ dst = EmptyIndex

\* C2: a dump called while a write transaction is in flight neither reads nor
\* returns before that transaction has committed or aborted, and the snapshot
\* of a successful dump is the committed state the index had when the dump's
\* transaction began.
C2_DumpWaitsForWriter ==
    /\ (dumpSaw # 0 /\ dumpPc \notin {"idle", "write_txn"}) => wdone >= dumpSaw
    /\ (dumpPc \notin {"idle", "write_txn", "done"}) => wlock = "dump"
    /\ (dumpRes = "ok" /\ ~altered) => SnapshotDescribes(origin)

\* C2 witness: the dump was called during a write transaction that added a
\* document, and has returned Ok after it.
C2_Witness ==
    /\ dumpSaw # 0
    /\ dumpRes = "ok"
    /\ ~altered
    /\ wdone >= dumpSaw
    /\ Len(origin.docs) >= 1

\* C3: from the first read of dump_documents to the end of dump_meta the
\* committed state of the index does not change, and when dump_meta is done
\* both files describe that one committed state.
C3_OneTransaction ==
    /\ [](dumpPc = "return" => SnapshotDescribes(idx))
    /\ [][(dumpPc \in {"create_docs", "docs", "write_meta"}) => (idx' = idx)]_vars

\* C3 witness: documents and meta are written, a writer has committed before
\* and has transactions left to attempt.
C3_Witness ==
    /\ dumpPc = "return"
    /\ Len(idx.docs) >= 2
    /\ idx.pk # None
    /\ wdone >= 1
    /\ wbegun < MaxWrites

\* The documents of an index state as JSON objects.
Documents(st) == {DocObject(st.fmap, st.docs[i]) : i \in DOMAIN st.docs}

\* C4: after a successful dump and a successful load_dump of the unedited
\* snapshot, the destination holds the same documents (as a set, and as many),
\* the same settings and the same primary key as the dumped index state, and
\* a dump of the destination gives the same meta record and the same set of
\* document objects.
C4_RoundTrip ==
    (lres = "ok" /\ dumpRes = "ok" /\ ~altered) =>
        /\ Documents(dst) = Documents(origin)
        /\ Len(dst.docs) = Len(origin.docs)
        /\ SettingsTxn(dst) = SettingsTxn(origin)
        /\ dst.pk = origin.pk
        /\ MetaOf(dst) = metaFile
        /\ {AsMap(l[2]) : l \in {DocLines(dst.fmap, dst.docs)[i] : i \in DOMAIN dst.docs}}
             = {AsMap(docsFile[2][i][2]) : i \in DOMAIN docsFile[2]}

\* C4 witness: a round trip of two documents with different field sets and
\* displayed attributes set, where the restored fields-ids map differs from
\* the original one.
C4_Witness ==
    /\ lres = "ok"
    /\ dumpRes = "ok"
    /\ ~altered
    /\ Len(origin.docs) = 2
    /\ origin.displayed # None
    /\ \E i \in DOMAIN origin.docs : DOMAIN origin.docs[i] # DOMAIN origin.docs[1]
    /\ dst.fmap # origin.fmap

\* C5: the bulk loader has run exactly when the batch is not empty; with an
\* empty batch the step after the batch reader goes to the commit without the
\* loader and without an error, and a successful load_dump has committed.
C5_LoaderIffNonEmpty ==
    /\ [](loaderRan => lbatch # <<>>)
    /\ []((lpc \in {"commit", "close", "wait"} \/ lres = "ok") =>
            (loaderRan <=> lbatch # <<>>))
    /\ [](lerrAt = "documents" => lbatch # <<>>)
    /\ [](lres = "ok" =>
            /\ commits = 1
            /\ applied # None
            /\ SettingsTxn(dst) = applied[1][1]
            /\ (applied[1][2] # None => dst.pk = applied[1][2]))
    /\ [][(lpc = "documents" /\ lbatch = <<>>) =>
            (lpc' = "commit" /\ ~loaderRan' /\ lres' = "none")]_vars

\* C5 witness: a snapshot with an empty document stream and no primary key
\* was restored successfully without the loader.
C5_Witness ==
    /\ lres = "ok"
    /\ docsFile[1] = "lines"
    /\ docsFile[2] = <<>>
    /\ ~loaderRan
    /\ commits = 1
    /\ dst.pk = None
    /\ applied # None

\* C6: when the bulk loader starts, the settings builder has executed in the
\* same transaction with the checked settings of the meta record and its
\* primary key, and the transaction's view carries them.
C6_SettingsBeforeDocuments ==
    /\ [](loaderRan => applied = Some(<<lsettings[1], lmeta[1].primary_key>>))
    /\ [][(loaderRan' /\ ~loaderRan) =>
            /\ applied # None
            /\ ltxn # None
            /\ ltxn[1] = ExecuteSettings(EmptyIndex, lsettings[1], lmeta[1].primary_key)
            /\ (lmeta[1].primary_key # None => ltxn[1].pk = lmeta[1].primary_key)]_vars

\* C6 witness: the loader ran on an index whose primary key "title" had been
\* set from the meta record, and load_dump succeeded.
C6_Witness ==
    /\ loaderRan
    /\ lmeta[1].primary_key = Some("title")
    /\ lres = "ok"
    /\ dst.pk = Some("title")

\* C7 as stated: the destination environment is opened before the meta
\* record is read and before the settings are checked.
C7_EnvBeforeMeta ==
    /\ lmeta # None => env # "none"
    /\ lsettings # None => env # "none"

\* C7 as amended: load_dump creates the directory, then reads the meta
\* record, then checks the settings, and only then opens the environment;
\* the write transaction, the settings builder, the staging file, the loader,
\* the commit and the closing follow in that order.
C7_StepOrder ==
    /\ lmeta # None => dstDir
    /\ lsettings # None => lmeta # None
    /\ env # "none" => (lsettings # None /\ lsettings[1] = Check(lmeta[1].settings))
    /\ ltxn # None => env = "open"
    /\ applied # None => env # "none"
    /\ tmp # "none" => applied # None
    /\ loaderRan => tmp \in {"consumed", "released"}
    /\ commits > 0 => (tmp \in {"consumed", "released"} /\ applied # None)
    /\ (env = "closing" \/ lres = "ok") => commits = 1

\* C7 witness: the environment has just been opened, with the meta record
\* read and the settings checked, and no transaction yet.
C7_Witness ==
    /\ lpc = "write_txn"
    /\ env = "open"
    /\ lmeta # None
    /\ lsettings # None
    /\ ltxn = None

\* C8: with a missing or malformed meta record load_dump returns an error
\* at the latest when reading it; the directory created before stays, the
\* environment was never opened, no transaction was opened and nothing was
\* applied or committed.
C8_BadMetaIsFatal ==
    /\ (metaFile[1] # "json" /\ lpc \notin {"idle", "create_dir", "read_meta"}) =>
          (lres = "err" /\ lerrAt \in {"dir_name", "create_dir", "read_meta"})
    /\ lerrAt = "read_meta" =>
          /\ metaFile[1] # "json"
          /\ lres = "err"
          /\ dstDir
          /\ env = "none"
          /\ ltxn = None
          /\ lsettings = None
          /\ applied = None
          /\ tmp = "none"
          /\ commits = 0
          /\ dst = EmptyIndex

\* C8 witness: load_dump failed on a meta record that is not JSON, after a
\* dump that had written documents.
C8_Witness ==
    /\ lerrAt = "read_meta"
    /\ metaFile[1] = "garbage"
    /\ docsFile[1] = "lines"
    /\ Len(docsFile[2]) >= 1
    /\ dstDir

\* The settings are not in checked form: check() changes their values.
NeedsCoercion(s) == Check(s).displayed # s.displayed

C10_ClosedBeforeOk ==
    /\ lres = "ok" => (commits = 1 /\ ltxn = None /\ env = "closed")
    /\ env = "closing" => (commits = 1 /\ lres = "none")

\* C10 witness: load_dump returned Ok after loading documents.
C10_Witness ==
    /\ lres = "ok"
    /\ env = "closed"
    /\ commits = 1
    /\ loaderRan
    /\ Len(dst.docs) >= 1

\* C11: the staging file of load_dump goes through created, populated,
\* rewound and consumed in that order, one stage per step of lines 129-135,
\* and it is released on every exit path after its creation: no return of
\* load_dump, Ok or Err, leaves it allocated.
C11_TmpOrder ==
    \/ tmp' = tmp
    \/ <<tmp, tmp'>> \in {<<"none", "created">>, <<"created", "populated">>,
                          <<"populated", "rewound">>, <<"rewound", "consumed">>}
    \/ tmp # "none" /\ tmp' = "released"

C11_StagingFileReleased ==
    /\ [](lpc = "done" => tmp \in {"none", "released"})
    /\ [](tmp = "created" => lpc = "read_ndjson")
    /\ [](tmp = "populated" => lpc = "seek")
    /\ [](tmp = "rewound" => lpc = "batch_reader")
    /\ [](lpc = "documents" => tmp = "consumed")
    /\ [][C11_TmpOrder]_vars

C11_Witness ==
    /\ lpc = "done"
    /\ lres = "err"
    /\ lerrAt = "seek"
    /\ tmp = "released"

\* C12: dump is fail-fast. When a payload of the document at hand does not
\* decode, or a read or a file write fails, dump returns Err at that step: the
\* failing document and the documents after it are not serialized, meta.json
\* is not written by that dump, nothing is retried, and the result stays Err.
C12_AfterErr ==
    dumpRes = "err" =>
        /\ dumpRes' = "err"
        /\ dumpPc' = "done"
        /\ docsFile' = docsFile
        /\ metaFile' = metaFile

C12_AtBadDocument ==
    (/\ dumpPc = "docs"
     /\ dumpPos <= Len(idx.docs)
     /\ Undecodable(dumpFmap, idx.docs[dumpPos])
     /\ <<dumpPc, dumpPos>>' # <<dumpPc, dumpPos>>)
    => (dumpRes' = "err" /\ docsFile' = docsFile /\ metaFile' = metaFile)

C12_FailFast ==
    /\ [](dumpRes = "err" =>
            /\ metaFile[1] # "json"
            /\ docsFile[1] = "lines" => Len(docsFile[2]) = dumpPos - 1)
    /\ [](dumpRes = "ok" =>
            \A i \in DOMAIN origin.docs : ~Undecodable(origin.fmap, origin.docs[i]))
    /\ [][C12_AfterErr]_vars
    /\ [][C12_AtBadDocument]_vars

C12_Witness ==
    /\ dumpRes = "err"
    /\ json_map # <<>>
    /\ Len(idx.docs) = 2
    /\ dumpPos = 1
    /\ docsFile = Lines(<<>>)
    /\ metaFile = NoFile

\* C13: a stored document with a field id that the fields-ids map does not
\* resolve aborts the dump: no dump returns Ok over a store holding one.
C13_UnresolvableIsFatal ==
    dumpRes = "ok" =>
        \A i \in DOMAIN origin.docs :
            \A fid \in DOMAIN origin.docs[i] : FieldName(origin.fmap, fid) # None

\* C14 as stated: dump reads through a read transaction, so while it is
\* serializing it does not hold the single-writer lock.
C14_ReadTransaction ==
    dumpPc \in {"create_dir", "create_docs", "docs", "write_meta", "return"}
        => wlock # "dump"

\* C14: dump obtains its view by opening a write transaction (line 30): from
\* then until it returns it holds the single-writer lock, and no other write
\* transaction begins while it is serializing.
C14_WriteTransaction ==
    /\ [](dumpPc \in {"create_dir", "create_docs", "docs", "write_meta", "return"}
            => wlock = "dump")
    /\ [][(dumpPc \in {"create_dir", "create_docs", "docs", "write_meta", "return"})
            => (wbegun' = wbegun)]_vars

C14_Witness ==
    /\ dumpPc = "docs"
    /\ dumpPos = 2
    /\ wlock = "dump"
    /\ wdone > 0

\* C15: the meta record round-trips: what load_dump deserializes from the
\* meta.json a dump wrote is the pair of Unchecked settings and optional
\* primary key that dump_meta serialized, an absent primary key included.
C15_MetaRoundTrip ==
    (lmeta # None /\ ~altered /\ dumpRes = "ok") =>
        lmeta[1] = [settings |-> IntoUnchecked(SettingsTxn(origin)),
                    primary_key |-> origin.pk]

C15_Witness ==
    /\ lmeta # None
    /\ ~altered
    /\ dumpRes = "ok"
    /\ origin.pk = None
    /\ origin.displayed # None
    /\ lmeta[1].primary_key = None

C17_OneLinePerDocument ==
    /\ (dumpPc = "docs" /\ docsFile[1] = "lines") => Len(docsFile[2]) = dumpPos - 1
    /\ (dumpRes = "ok" /\ ~altered) =>
          /\ docsFile[1] = "lines"
          /\ Len(docsFile[2]) = Len(origin.docs)
          /\ \A i \in DOMAIN origin.docs :
                /\ docsFile[2][i][1] = "obj"
                /\ AsMap(docsFile[2][i][2]) = DocObject(origin.fmap, origin.docs[i])
          /\ metaFile[1] = "json"

C17_Witness ==
    /\ dumpRes = "ok"
    /\ ~altered
    /\ Len(origin.docs) = 2
    /\ Len(docsFile[2]) = 2
    /\ docsFile[2][1] # docsFile[2][2]

\* C18: json_map is reused across the iterations of dump_documents, but each
\* line written holds only fields of its own document, and the map is empty
\* between iterations.
C18_NoFieldLeak ==
    /\ dumpPc = "docs" => json_map = <<>>
    /\ (docsFile[1] = "lines" /\ ~altered) =>
          \A i \in DOMAIN docsFile[2] :
              \A m \in AsMap(docsFile[2][i][2]) :
                  \E fid \in DOMAIN origin.docs[i] :
                      FieldName(origin.fmap, fid) = Some(m[1])

C18_Witness ==
    /\ docsFile[1] = "lines"
    /\ ~altered
    /\ Len(docsFile[2]) = 2
    /\ \E m \in AsMap(docsFile[2][1][2]) :
          \A n \in AsMap(docsFile[2][2][2]) : n[1] # m[1]

\* C19: dump never modifies the index. No step of dump changes the committed
\* state, which stays what it was when the transaction was opened for as
\* long as the dump runs, and is the same when dump returns, Ok or Err.
C19_DumpStep ==
    (dumpPc' # dumpPc \/ dumpPos' # dumpPos) => (idx' = idx)

C19_ReturnStep ==
    (dumpPc' = "done" /\ dumpPc \notin {"done", "write_txn"}) => (idx' = origin)

C19_IndexUntouched ==
    /\ [](dumpPc \in {"create_dir", "create_docs", "docs", "write_meta", "return"}
            => idx = origin)
    /\ [][C19_DumpStep]_vars
    /\ [][C19_ReturnStep]_vars

C19_Witness ==
    /\ dumpRes = "err"
    /\ docsFile[1] = "lines"
    /\ Len(docsFile[2]) = 1
    /\ Len(idx.docs) = 2
    /\ idx = origin
    /\ wdone > 0

\* C20: dump holds the exclusive writer transaction from before it creates
\* any output file until it returns. A writer or a second dump of the same
\* index that starts during a dump does not get past its own write_txn before
\* that dump has returned, so two dumps never interleave their writes to the
\* output files and a dump that returns Ok leaves the snapshot of its own
\* view; and the lock is released on every exit path, Ok or Err.
C20_Serializing == {"create_dir", "create_docs", "docs", "write_meta", "return"}

C20_OthersWait ==
    /\ (dumpPc \in C20_Serializing) =>
          /\ wbegun' = wbegun
          /\ dump2Pc' = dump2Pc \/ (dump2Pc = "idle" /\ dump2Pc' = "write_txn")
          /\ (<<docsFile, metaFile>>' # <<docsFile, metaFile>>) => (dumpVars' # dumpVars)
    /\ (dump2Pc \in C20_Serializing) =>
          /\ wbegun' = wbegun
          /\ dumpPc' = dumpPc \/ (dumpPc = "idle" /\ dumpPc' = "write_txn")
          /\ (<<docsFile, metaFile>>' # <<docsFile, metaFile>>) => (dump2Vars' # dump2Vars)

C20_OwnSnapshot ==
    /\ (dumpRes' = "ok" /\ dumpRes # "ok") => SnapshotDescribes(idx)'
    /\ (dump2Res' = "ok" /\ dump2Res # "ok") => SnapshotDescribes(idx)'

C20_ExclusiveUntilReturn ==
    /\ [](dumpPc \in C20_Serializing => wlock = "dump")
    /\ [](dump2Pc \in C20_Serializing => wlock = "dump2")
    /\ []((dumpPc \in {"idle", "write_txn"} /\ dump2Pc \in {"idle", "write_txn"})
            => (~dumpDir /\ docsFile = NoFile /\ metaFile = NoFile))
    /\ [](dumpPc = "done" => wlock # "dump")
    /\ [](dump2Pc = "done" => wlock # "dump2")
    /\ [][C20_OthersWait]_vars
    /\ [][C20_OwnSnapshot]_vars

C20_Witness ==
    /\ dumpRes = "err"
    /\ dumpPos = 2
    /\ dump2Pc = "docs"
    /\ dump2Pos = 2
    /\ wlock = "dump2"

====
